---- MODULE Spec2Model ----
(***************************************************************************)
(* Event filtering and consequence simulation of AkriviC/Integration.      *)
(*                                                                         *)
(* The functions of im_fields.py, consequences.py and exposure.py are      *)
(* modelled as operators over the already-loaded inputs (the IM field      *)
(* dataset, the consequence model, the exposure).  A behaviour is one      *)
(* call: the inputs are drawn in the initial state, the action applies the *)
(* function to arguments drawn from small sets and records the arguments   *)
(* in `call` and the outcome (a returned value or a raised exception) in   *)
(* `ret`.                                                                  *)
(***************************************************************************)
EXTENDS Integers, Sequences, FiniteSets, TLC

VARIABLES
    imfield_data,     \* the IM field dataset: gmf_data, imts, events, ruptures, sitecol
    cons_for_hazard,  \* taxonomy -> consequence function of the hazard
    cons_mtdata,      \* metadata of the consequence model: Nrealizations
    exp_assets,       \* the assets of the exposure model, by taxonomy once resolved
    call,             \* the function called and its arguments
    ret               \* its outcome

vars == <<imfield_data, cons_for_hazard, cons_mtdata, exp_assets, call, ret>>

(***************************************************************************)
(* Bounds of the model.                                                    *)
(***************************************************************************)
NumEvents == 2        \* events (and ruptures) of the catalog

NumRealizations == 3  \* realizations of every consequence array

(***************************************************************************)
(* Python values.                                                          *)
(***************************************************************************)
\* None: a parameter that was not supplied
None == -1

\* bool(x) of an optional number: None and 0 are false
Truthy(x) == x # None /\ x # 0

Returned(v) == [status |-> "returned", error |-> "", value |-> v]
Raised(e) == [status |-> "raised", error |-> e, value |-> <<>>]

NoCall == [op |-> "none"]
NoRet == [status |-> "none", error |-> "", value |-> <<>>]

\* mutant: the names are compared as written
LowerAsWritten(s) == s

\* str.lower() on the IM type names and the asset types of the model
Lower(s) ==
    CASE s = "PGA" -> "pga"
      [] s = "pga" -> "pga"
      [] s = "SA" -> "sa"
      [] s = "sa" -> "sa"
      [] s = "point" -> "point"
      [] s = "Point" -> "point"
      [] s = "area" -> "area"
      [] s = "linear" -> "linear"

\* list(xs).index(x): the first position holding x (positions from 1)
ListIndex(xs, x) == CHOOSE i \in 1..Len(xs) : xs[i] = x /\ \A j \in 1..(i - 1) : xs[j] # x

\* xs[idx] for a list of positions idx
TakeRows(xs, idx) == [i \in 1..Len(idx) |-> xs[idx[i]]]

\* mutant: the list is left in the order given
AsListed(xs) == xs

\* sorted(xs) of a list of integers
Sorted(xs) == SortSeq(xs, LAMBDA a, b : a < b)

\* a list holding the elements of a set of integers
RECURSIVE SetToList(_)
SetToList(S) ==
    IF S = {} THEN <<>>
    ELSE LET m == CHOOSE x \in S : \A y \in S : x <= y
         IN <<m>> \o SetToList(S \ {m})

Column(rows, f) == [i \in 1..Len(rows) |-> rows[i][f]]

Range(xs) == {xs[i] : i \in 1..Len(xs)}

(***************************************************************************)
(* The inputs.                                                             *)
(***************************************************************************)
\* the taxonomies of the consequence model, in the order the dictionary holds them
TaxKeys == <<"T1", "T2">>

Taxonomies == Range(TaxKeys)

EventIds == 1..NumEvents

RuptureIds == 1..NumEvents

\* hazard sites; no asset of the model resolves to site 3
SiteIds == {1, 2, 3}

AssetSiteIds == {1, 2}

\* intensity values of the samples: below and above the threshold 2
GmvValues == {1, 3}

NoSample == None

\* im_fields['gmv'][:, 0], im_fields['sid'], im_fields['eid']: one row per sample
GmfRows(f) ==
    LET pairs == {p \in SiteIds \X EventIds : f[p] # NoSample}
        key(p) == p[2] * 10 + p[1]
        keys == SetToList({key(p) : p \in pairs})
    IN [i \in 1..Len(keys) |->
           LET p == CHOOSE q \in pairs : key(q) = keys[i]
           IN [sid |-> p[1], eid |-> p[2], gmv |-> f[p]]]

\* the events table: event id i is stored at position i
EventRows(rup_of) == [i \in 1..NumEvents |-> [id |-> i, rup_id |-> rup_of[i]]]

\* the ruptures table
RuptureRows(mag_of, hypo_of) ==
    [i \in 1..NumEvents |-> [id |-> i, mag |-> mag_of[i], hypo |-> hypo_of[i]]]

\* events are stored rupture by rupture: the first event belongs to the first
\* rupture and rupture ids do not decrease along the table
EventRuptureMaps ==
    {m \in [EventIds -> RuptureIds] :
        /\ m[1] = 1
        /\ \A i \in 1..(NumEvents - 1) : m[i + 1] \in {m[i], m[i] + 1}}

MagValues == {4, 5}

\* hypocenters lie on the equator east of the reference point
HypoLons == {3, 4}

Hypo(lon) == [lon |-> lon, lat |-> 0]

\* an asset as exposure_by_taxonomy returns it
Asset(name, sid) == [asset_name |-> name, location |-> [hazard_sid |-> sid]]

(***************************************************************************)
(* im_fields.py                                                            *)
(***************************************************************************)
\* mutant: the threshold test is strict
AssetEventsStrictThreshold(asset, events_filtering_method, IM_threshold) ==
    LET sid == asset.location.hazard_sid
        at_site == SelectSeq(imfield_data.gmf_data, LAMBDA row : row.sid = sid)
    IN IF events_filtering_method = 1
       THEN Range(Column(at_site, "eid"))
       ELSE Range(Column(SelectSeq(at_site, LAMBDA row : row.gmv > IM_threshold), "eid"))

\* mutant: the samples are not restricted to the asset's site
AssetEventsAnySite(asset, events_filtering_method, IM_threshold) ==
    LET at_site == imfield_data.gmf_data
    IN IF events_filtering_method = 1
       THEN Range(Column(at_site, "eid"))
       ELSE Range(Column(SelectSeq(at_site, LAMBDA row : row.gmv >= IM_threshold), "eid"))

\* the events of one asset's site that pass the asset's test (one loop body)
AssetEvents(asset, events_filtering_method, IM_threshold) ==
    LET im_fields == imfield_data.gmf_data
        sid == asset.location.hazard_sid
        at_site == SelectSeq(im_fields, LAMBDA row : row.sid = sid)
    IN IF events_filtering_method = 1
       THEN Range(Column(at_site, "eid"))
       ELSE Range(Column(SelectSeq(at_site, LAMBDA row : row.gmv >= IM_threshold), "eid"))

\* the loop over the assets of one taxonomy
TaxonomyEvents(tax_key, events_filtering_method, IM_threshold) ==
    UNION {AssetEvents(exp_assets[tax_key][i], events_filtering_method, IM_threshold) :
              i \in 1..Len(exp_assets[tax_key])}

\* mutant: the closing assertion is missing
ReturnWithoutAssertion(events_of_interest) == Returned(events_of_interest)

\* the closing assertion and the return
NonEmptyOrFail(events_of_interest) ==
    IF Cardinality(events_of_interest) > 0
    THEN Returned(events_of_interest)
    ELSE Raised("AssertionError: all events are filtered out")

\* the loop over the taxonomies, from position k with the events found so far
RECURSIVE ImvalueLoop(_, _, _, _)
ImvalueLoop(k, events_of_interest, events_filtering_method, IM_threshold) ==
    IF k > Len(TaxKeys)
    THEN NonEmptyOrFail(events_of_interest)
    ELSE LET tax_key == TaxKeys[k]
             imt == cons_for_hazard[tax_key].im_type
         IN IF Lower(imt) # Lower(imfield_data.imts)
            THEN Raised("AssertionError: IM type")
            ELSE ImvalueLoop(k + 1,
                     events_of_interest \cup
                         TaxonomyEvents(tax_key, events_filtering_method, IM_threshold),
                     events_filtering_method, IM_threshold)

\* the raise of `Warning` when a threshold comes with method 1
ThresholdWithPresence(events_filtering_method, IM_threshold) ==
    events_filtering_method = 1 /\ Truthy(IM_threshold)

FilterEventsByImvalue(events_filtering_method, IM_threshold) ==
    IF ThresholdWithPresence(events_filtering_method, IM_threshold)
    THEN Raised("Warning")
    ELSE ImvalueLoop(1, {}, events_filtering_method, IM_threshold)

\* the event rows and the rupture rows of the events of interest
FiterImfieldData(events_of_interest) ==
    LET event_mtdata == imfield_data.events
        eids == SetToList(events_of_interest)
        ruptures_of_interest_idx ==
            [i \in 1..Len(eids) |-> ListIndex(Column(event_mtdata, "id"), eids[i])]
        filtered_event_mtdata == TakeRows(event_mtdata, Sorted(ruptures_of_interest_idx))
        rupture_mtdata == imfield_data.ruptures
        ruptures_info_idx ==
            [i \in 1..Len(filtered_event_mtdata) |->
                ListIndex(Column(rupture_mtdata, "id"), filtered_event_mtdata[i].rup_id)]
        filtered_rupture_mtdata == TakeRows(rupture_mtdata, Sorted(ruptures_info_idx))
    IN [events |-> filtered_event_mtdata, ruptures |-> filtered_rupture_mtdata]

\* mutant: no bound is applied
BoundsMaskAlways(v, lo, hi) == TRUE

\* the mask of a value under an optional lower and an optional upper bound
BoundsMask(v, lo, hi) ==
    IF Truthy(lo) /\ Truthy(hi) THEN v >= lo /\ v <= hi
    ELSE IF Truthy(lo) /\ ~Truthy(hi) THEN v >= lo
    ELSE IF Truthy(hi) /\ ~Truthy(lo) THEN v <= hi
    ELSE TRUE

\* no reference point: ref_coords = {}
NoRef == [given |-> FALSE, lon |-> 0, lat |-> 0]

RefPoint == [given |-> TRUE, lon |-> 0, lat |-> 0]

\* geopy.distance.distance(a, b).km, on the points of the model
GeoDistanceKm(a, b) ==
    LET abs(x) == IF x < 0 THEN -x ELSE x
    IN abs(a.lon - b.lon) + abs(a.lat - b.lat)

\* mutant: the event of the first rupture that passed is left out
EventsOfRupturesButFirst(filtered_event_mtdata, rupture_ids) ==
    LET ids == [i \in 1..Len(rupture_ids) |->
                   filtered_event_mtdata[ListIndex(Column(filtered_event_mtdata, "rup_id"),
                                                   rupture_ids[i])].id]
    IN IF ids = <<>> THEN ids ELSE Tail(ids)

\* the event ids of the ruptures that passed, looked up in the filtered events
EventsOfRuptures(filtered_event_mtdata, rupture_ids) ==
    LET event_idx_ids_for_mag_dist ==
            [i \in 1..Len(rupture_ids) |->
                ListIndex(Column(filtered_event_mtdata, "rup_id"), rupture_ids[i])]
    IN Column(TakeRows(filtered_event_mtdata, event_idx_ids_for_mag_dist), "id")

\* an argument left out of the call
Omitted == -2

\* the default of min_mag in the signature of filter_events
DefaultMinMag == 4

\* the value a keyword argument has in the body: its default when left out
OrDefault(arg, default) == IF arg = Omitted THEN default ELSE arg

\* whether the distance stage runs
DistanceStage(min_dist, max_dist) == Truthy(min_dist) \/ Truthy(max_dist)

FilterEvents(min_mag, max_mag, IM_threshold, min_dist, max_dist, ref_coords) ==
    LET events_filtering_method == IF ~Truthy(IM_threshold) THEN 1 ELSE 2
        stage1 == FilterEventsByImvalue(events_filtering_method, IM_threshold)
    IN IF stage1.status = "raised" THEN stage1
       ELSE
       LET filtered == FiterImfieldData(stage1.value)
           filtered_rupture_mtdata_by_mag ==
               SelectSeq(filtered.ruptures, LAMBDA r : BoundsMask(r.mag, min_mag, max_mag))
       IN IF DistanceStage(min_dist, max_dist)
          THEN IF ~ref_coords.given
               THEN Raised("AssertionError: reference point")
               ELSE Returned(EventsOfRuptures(filtered.events,
                        Column(SelectSeq(filtered_rupture_mtdata_by_mag,
                                   LAMBDA r : BoundsMask(GeoDistanceKm(r.hypo, ref_coords),
                                                         min_dist, max_dist)),
                               "id")))
          ELSE Returned(EventsOfRuptures(filtered.events,
                   Column(filtered_rupture_mtdata_by_mag, "id")))

(***************************************************************************)
(* consequences.py                                                         *)
(***************************************************************************)
\* a dictionary is a function on its keys
EmptyDict == <<>>

\* d.update({k: v})
DictPut(d, k, v) == [x \in DOMAIN d \cup {k} |-> IF x = k THEN v ELSE d[x]]

\* str(n) of an event id
Str(n) ==
    CASE n = 1 -> "1"
      [] n = 2 -> "2"
      [] n = 3 -> "3"
      [] n = 4 -> "4"

\* the values random.Random(seed)._randbelow(i + 1) yields for i = n-1 down to 1
\* (CPython's Mersenne Twister), for the seeds 1..8
RandBelowDraws(seed, n) ==
    CASE n < 2 -> <<>>
      [] n = 2 -> <<<<0>>, <<0>>, <<0>>, <<0>>, <<1>>, <<0>>, <<1>>, <<0>>>>[seed]
      [] n = 3 -> <<<<0, 0>>, <<0, 0>>, <<0, 0>>, <<0, 1>>, <<2, 1>>, <<2, 0>>,
                    <<1, 0>>, <<0, 1>>>>[seed]
      [] n = 4 -> <<<<1, 2, 0>>, <<0, 0, 0>>, <<1, 2, 0>>, <<1, 1, 0>>, <<2, 2, 1>>,
                    <<0, 1, 1>>, <<2, 0, 1>>, <<1, 1, 1>>>>[seed]
      [] n = 5 -> <<<<1, 0, 1, 0>>, <<0, 0, 0, 1>>, <<1, 1, 1, 1>>, <<1, 2, 0, 1>>,
                    <<4, 2, 2, 1>>, <<4, 0, 1, 1>>, <<2, 1, 1, 0>>, <<1, 2, 1, 0>>>>[seed]

\* mutant: x[i] = x[j], the value of x[i] is lost
Overwrite(x, i, j) == [p \in 1..Len(x) |-> IF p = i + 1 THEN x[j + 1] ELSE x[p]]

\* x[i], x[j] = x[j], x[i] (i, j count from 0)
Swap(x, i, j) ==
    [p \in 1..Len(x) |-> IF p = i + 1 THEN x[j + 1] ELSE IF p = j + 1 THEN x[i + 1] ELSE x[p]]

\* the loop of shuffle: step s exchanges x[n - s] with x[draw s]
RECURSIVE ShuffleFrom(_, _, _)
ShuffleFrom(x, draws, s) ==
    IF s > Len(draws) THEN x
    ELSE ShuffleFrom(Swap(x, Len(x) - s, draws[s]), draws, s + 1)

\* random.Random(seed).shuffle(x)
Shuffle(seed, x) == ShuffleFrom(x, RandBelowDraws(seed, Len(x)), 1)

\* list(range(n))
RangeList(n) == [i \in 1..n |-> i - 1]

\* get_cons_imlevels: the im_level of every record
GetConsImlevels(consequences) ==
    IF \E i \in 1..Len(consequences) : "im_level" \notin DOMAIN consequences[i]
    THEN Raised("KeyError: im_level")
    ELSE Returned([i \in 1..Len(consequences) |-> consequences[i]["im_level"]])

\* mutant: the last of the closest levels
ClosestImIndexLast(asset_im_levels, im_value) ==
    LET abs(x) == IF x < 0 THEN -x ELSE x
        d(i) == abs(asset_im_levels[i] - im_value)
    IN CHOOSE i \in 1..Len(asset_im_levels) :
          /\ \A j \in 1..Len(asset_im_levels) : d(i) <= d(j)
          /\ \A j \in (i + 1)..Len(asset_im_levels) : d(j) > d(i)

\* min(range(len(levels)), key=|levels[i] - im_value|): the first minimum
ClosestImIndex(asset_im_levels, im_value) ==
    LET abs(x) == IF x < 0 THEN -x ELSE x
        d(i) == abs(asset_im_levels[i] - im_value)
    IN CHOOSE i \in 1..Len(asset_im_levels) :
          /\ \A j \in 1..Len(asset_im_levels) : d(i) <= d(j)
          /\ \A j \in 1..(i - 1) : d(j) > d(i)

\* mutant: the array is scattered to the positions rndnums, not gathered from them
ReindexInverse(array, rndnums) ==
    [i \in 1..Len(rndnums) |-> array[CHOOSE j \in 1..Len(rndnums) : rndnums[j] = i - 1]]

\* [array[i] for i in rndnums]
Reindex(array, rndnums) == [i \in 1..Len(rndnums) |-> array[rndnums[i] + 1]]

\* mutant: the recovery realizations keep their order
ReindexRlzByPosition(recovery, rndnums) == [i \in 1..Len(rndnums) |-> recovery[i]]

\* {'rlz_' + str(i + 1): recovery['rlz_' + str(k + 1)] for i, k in enumerate(rndnums)};
\* position j of the model stands for the key rlz_j
ReindexRlz(recovery, rndnums) == [i \in 1..Len(rndnums) |-> recovery[rndnums[i] + 1]]

\* the rearranged fields of a component other than "global" of a Tier I record
ComponentFields(comp, rndnums) ==
    [f \in DOMAIN comp \cap {"cost", "damage_state"} |-> Reindex(comp[f], rndnums)]

\* the rearranged fields of the "global" component of a Tier I record
GlobalFields(comp, rndnums) ==
    [f \in DOMAIN comp \cap {"recovery", "cost", "damage_state"} |->
        IF f = "recovery" THEN Reindex(comp["recovery_realizations"], rndnums)
        ELSE Reindex(comp[f], rndnums)]

\* the loop over the components of a Tier I record, from component i
RECURSIVE TierOneLoop(_, _, _, _)
TierOneLoop(comps, i, rndnums, asset_cons_rrng) ==
    IF i > Len(comps) THEN Returned(asset_cons_rrng)
    ELSE LET comp == comps[i]
         IN IF comp["component"] # "global"
            THEN TierOneLoop(comps, i + 1, rndnums,
                     DictPut(asset_cons_rrng, comp["component"],
                             ComponentFields(comp, rndnums)))
            ELSE IF "recovery" \in DOMAIN comp /\ "recovery_realizations" \notin DOMAIN comp
            THEN Raised("KeyError: recovery_realizations")
            ELSE TierOneLoop(comps, i + 1, rndnums,
                     DictPut(asset_cons_rrng, comp["component"],
                             GlobalFields(comp, rndnums)))

\* the rearranged fields of a Tier II record
TierTwo(asset_cons, rndnums) ==
    LET glob == asset_cons["global"]
    IN [global |->
           [f \in DOMAIN glob \cap {"cost", "damage_state", "recovery"} |->
               IF f = "recovery" THEN ReindexRlz(glob[f], rndnums)
               ELSE Reindex(glob[f], rndnums)]]

\* mutant: a record is Tier I when it has a component list
IsTierOneByComponents(asset_cons) == "consequences" \in DOMAIN asset_cons

\* len(asset_cons.keys()) > 1
IsTierOne(asset_cons) == Cardinality(DOMAIN asset_cons) > 1

\* the rearranged consequences of one record
Rearrange(asset_cons, rndnums) ==
    IF IsTierOne(asset_cons)
    THEN IF "consequences" \notin DOMAIN asset_cons
         THEN Raised("KeyError: consequences")
         ELSE TierOneLoop(asset_cons["consequences"], 1, rndnums, EmptyDict)
    ELSE IF "global" \notin DOMAIN asset_cons
         THEN Raised("KeyError: global")
         ELSE Returned(TierTwo(asset_cons, rndnums))

\* mutant: the entries of the event are replaced by the entry of the asset
PutResultAlone(results, event, asset_name, asset_cons_rrng) ==
    DictPut(results, Str(event), DictPut(EmptyDict, asset_name, asset_cons_rrng))

\* results[str(event)].update({asset_name: entry}), or a new dictionary for the event
PutResult(results, event, asset_name, asset_cons_rrng) ==
    IF Str(event) \in DOMAIN results
    THEN DictPut(results, Str(event), DictPut(results[Str(event)], asset_name, asset_cons_rrng))
    ELSE DictPut(results, Str(event), DictPut(EmptyDict, asset_name, asset_cons_rrng))

\* the loop over the events, from position ev_idx
RECURSIVE EventLoop(_, _, _, _, _, _, _)
EventLoop(ev_idx, events, im_values, asset_name, asset_im_levels, asset_consequences, rr) ==
    IF ev_idx > Len(events) THEN Returned(rr.results)
    ELSE LET idx_closest_im == ClosestImIndex(asset_im_levels, im_values[ev_idx])
             rearranged == Rearrange(asset_consequences[idx_closest_im], rr.rndnums)
         IN IF rearranged.status = "raised" THEN rearranged
            ELSE EventLoop(ev_idx + 1, events, im_values, asset_name, asset_im_levels,
                     asset_consequences,
                     [rndnums |-> rr.rndnums,
                      results |-> PutResult(rr.results, events[ev_idx], asset_name,
                                            rearranged.value)])

GetConsequencesByEvent(events, im_values, asset_name, asset_im_levels, asset_consequences, rndnums, results) ==
    EventLoop(1, events, im_values, asset_name, asset_im_levels, asset_consequences,
              [rndnums |-> rndnums, results |-> results])

\* find_conss_idx and find_cons_idx: the index of the component named `component`
FindConsIdx(comps_data, tag, component) ==
    IF \E i, j \in 1..Len(comps_data) : i < j /\ comps_data[i][tag] = comps_data[j][tag]
    THEN Raised("Exception: duplicate component")
    ELSE IF \A i \in 1..Len(comps_data) : comps_data[i][tag] # component
    THEN Raised("IndexError: component")
    ELSE Returned(ListIndex(Column(comps_data, tag), component))

\* mutant: the rows of the event at any site
ImValuesAtAnySite(event_id, hazard_sid) ==
    Column(SelectSeq(imfield_data.gmf_data, LAMBDA row : row.eid = event_id), "gmv")

\* im_values_all[idx_sid_event]: the IM values of the event at the site
ImValuesAt(event_id, hazard_sid) ==
    Column(SelectSeq(imfield_data.gmf_data,
                     LAMBDA row : row.eid = event_id /\ row.sid = hazard_sid), "gmv")

\* the state of the traversal before its first asset
StartOfTraversal ==
    [rnd_seed |-> 0, nums |-> RangeList(cons_mtdata.Nrealizations),
     results |-> EmptyDict, asset_ds_description |-> EmptyDict, trace |-> <<>>]

\* mutant: the seed restarts for every asset
NextNumsSameSeed(st) == [rnd_seed |-> 1, nums |-> Shuffle(1, st.nums)]

\* rnd_seed = rnd_seed + 1; random.Random(rnd_seed).shuffle(nums)
NextNums(st) ==
    [rnd_seed |-> st.rnd_seed + 1, nums |-> Shuffle(st.rnd_seed + 1, st.nums)]

\* one asset of the traversal: the state after it, or the exception it raises.
\* `trace` records, for every asset processed, its seed and the index list
\* handed to get_consequences_by_event.
AssetStep(event_id, tax_key, asset, st) ==
    LET nn == NextNums(st)
        im_rows == ImValuesAt(event_id, asset.location.hazard_sid)
        asset_im_levels == GetConsImlevels(cons_for_hazard[tax_key].iml_consequences)
        descr == cons_for_hazard[tax_key].component_damage_state_description
        global_idx == FindConsIdx(descr, "component", "global")
    IN IF Len(im_rows) = 0 THEN Raised("IndexError: no IM value")
       ELSE IF asset_im_levels.status = "raised" THEN asset_im_levels
       ELSE LET res == GetConsequencesByEvent(<<event_id>>, <<im_rows[1]>>,
                           asset.asset_name, asset_im_levels.value,
                           cons_for_hazard[tax_key].iml_consequences, nn.nums, st.results)
            IN IF res.status = "raised" THEN res
               ELSE IF global_idx.status = "raised" THEN global_idx
               ELSE Returned(
                   [rnd_seed |-> nn.rnd_seed, nums |-> nn.nums, results |-> res.value,
                    asset_ds_description |->
                        DictPut(st.asset_ds_description, asset.asset_name,
                                descr[global_idx.value]),
                    trace |-> Append(st.trace,
                                  [asset_name |-> asset.asset_name, tax_key |-> tax_key,
                                   rnd_seed |-> nn.rnd_seed, rndnums |-> nn.nums,
                                   im_value |-> im_rows[1]])])

\* the loops over the taxonomies and their assets, from asset i of taxonomy k
RECURSIVE AllAssetsLoop(_, _, _, _)
AllAssetsLoop(event_id, k, i, st) ==
    IF k > Len(TaxKeys)
    THEN [status |-> "returned", error |-> "",
          value |-> [results |-> st.results,
                     asset_ds_description |-> st.asset_ds_description],
          trace |-> st.trace]
    ELSE LET tax_key == TaxKeys[k]
         IN IF i = 1 /\ Lower(cons_for_hazard[tax_key].im_type) # Lower(imfield_data.imts)
            THEN Raised("AssertionError: IM type")
            ELSE IF i > Len(exp_assets[tax_key])
            THEN AllAssetsLoop(event_id, k + 1, 1, st)
            ELSE LET step == AssetStep(event_id, tax_key, exp_assets[tax_key][i], st)
                 IN IF step.status = "raised" THEN step
                    ELSE AllAssetsLoop(event_id, k, i + 1, step.value)

GetConsequencesByEventAllAssets(event_id) == AllAssetsLoop(event_id, 1, 1, StartOfTraversal)

(***************************************************************************)
(* exposure.py                                                             *)
(***************************************************************************)
\* a site reference is a single integer or a list of integers
IntSid(n) == [is_list |-> FALSE, items |-> <<n>>]

ListSid(xs) == [is_list |-> TRUE, items |-> xs]

\* find_asset_sid: the site reference that defines the hazard of the asset.
\* len() of an integer sid is a TypeError; int() of a list sid is the TypeError
\* that leads to numpy.sort(sid)[0]; no branch assigns site_id for a type that
\* is neither point nor area.
FindAssetSid(location, asset_type) ==
    IF Lower(asset_type) = "point"
    THEN IF ~location.sid.is_list THEN Raised("TypeError: len")
         ELSE IF Len(location.sid.items) = 1 THEN Returned(location.sid)
         ELSE IF "hzrd_ctrl_pnt" \in DOMAIN location
              THEN Returned(IntSid(location.hzrd_ctrl_pnt))
              ELSE IF Len(location.sid.items) = 0 THEN Raised("IndexError")
                   ELSE Returned(IntSid(Sorted(location.sid.items)[1]))
    ELSE IF Lower(asset_type) = "area"
    THEN IF "hzrd_ctrl_pnt" \in DOMAIN location
         THEN Returned(IntSid(location.hzrd_ctrl_pnt))
         ELSE Raised("KeyError: hzrd_ctrl_pnt")
    ELSE Raised("UnboundLocalError: site_id")

\* mutant: the last position of the minimum
LastMinIndex(xs) ==
    CHOOSE i \in 1..Len(xs) :
        /\ \A j \in 1..Len(xs) : xs[j] >= xs[i]
        /\ \A j \in (i + 1)..Len(xs) : xs[j] > xs[i]

\* min(range(len(xs)), key=xs.__getitem__): the first position of the minimum
FirstMinIndex(xs) ==
    CHOOSE i \in 1..Len(xs) :
        /\ \A j \in 1..Len(xs) : xs[j] >= xs[i]
        /\ \A j \in 1..(i - 1) : xs[j] > xs[i]

\* hazard2exppoints_consistency is False: the hazard site closest to the
\* coordinates of the asset's site
NearestHazardSite(sid, site_mtdata, max_allowable_dist) ==
    LET coords_idx == {i \in 1..Len(site_mtdata.site_id) :
                          site_mtdata.site_id[i] = sid.items[1]}
    IN IF Cardinality(coords_idx) # 1 THEN Raised("AssertionError: check site id")
       ELSE LET c == CHOOSE i \in coords_idx : TRUE
                asset_site == [lon |-> site_mtdata.lon[c], lat |-> site_mtdata.lat[c]]
                imfield_sites == imfield_data.sitecol
                geo_dist == [k \in 1..Len(imfield_sites.sids) |->
                                GeoDistanceKm([lon |-> imfield_sites.lon[k],
                                               lat |-> imfield_sites.lat[k]], asset_site)]
                min_dist_idx == FirstMinIndex(geo_dist)
            IN IF max_allowable_dist = None THEN Raised("TypeError: < None")
               ELSE IF ~(geo_dist[min_dist_idx] < max_allowable_dist)
                    THEN Raised("AssertionError: closest hazard point too far")
                    ELSE Returned(imfield_sites.sids[min_dist_idx])

\* hazard2exppoints_consistency is not False: int(sid), or sid[0] for a list
DirectHazardSite(sid) ==
    IF ~sid.is_list THEN Returned(sid.items[1]) ELSE Returned(sid.items[1])

\* the loops of exposure_by_taxonomy over the taxonomies of the consequence
\* model and the assets of each; the location of an asset is updated in place
RECURSIVE ExposureLoop(_, _, _, _, _, _, _)
ExposureLoop(k, i, assets, assets_by_taxonomy, hazard2exppoints_consistency, site_mtdata, max_allowable_dist) ==
    IF k > Len(TaxKeys)
    THEN [status |-> "returned", error |-> "", value |-> assets_by_taxonomy,
          exp_assets |-> assets]
    ELSE IF i > Len(assets)
    THEN ExposureLoop(k + 1, 1, assets, assets_by_taxonomy,
                      hazard2exppoints_consistency, site_mtdata, max_allowable_dist)
    ELSE IF assets[i].taxonomy # TaxKeys[k]
    THEN ExposureLoop(k, i + 1, assets, assets_by_taxonomy,
                      hazard2exppoints_consistency, site_mtdata, max_allowable_dist)
    ELSE LET sid == FindAssetSid(assets[i].location, assets[i].asset_type)
             hazard_sid ==
                 IF hazard2exppoints_consistency = FALSE
                 THEN NearestHazardSite(sid.value, site_mtdata, max_allowable_dist)
                 ELSE DirectHazardSite(sid.value)
             failure == IF sid.status = "raised" THEN sid ELSE hazard_sid
             updated == [assets[i] EXCEPT
                            !.location = DictPut(@, "hazard_sid", hazard_sid.value)]
         IN IF failure.status = "raised"
            THEN [status |-> "raised", error |-> failure.error, value |-> <<>>,
                  exp_assets |-> assets]
            ELSE ExposureLoop(k, i + 1, [assets EXCEPT ![i] = updated],
                              [assets_by_taxonomy EXCEPT
                                  ![TaxKeys[k]] = Append(@, updated)],
                              hazard2exppoints_consistency, site_mtdata,
                              max_allowable_dist)

ExposureByTaxonomy(assets, hazard2exppoints_consistency, site_mtdata, max_allowable_dist) ==
    ExposureLoop(1, 1, assets, [t \in Taxonomies |-> <<>>],
                 hazard2exppoints_consistency, site_mtdata, max_allowable_dist)

(***************************************************************************)
(* outputs.py                                                              *)
(***************************************************************************)
\* the keys of a dictionary keyed by asset names, in the order of insertion
AssetKeys(d) == SelectSeq(<<"a1", "a2", "a3">>, LAMBDA n : n \in DOMAIN d)

\* the distinct values of a list in the order they first occur: the keys of
\* Counter(xs)
RECURSIVE FirstSeen(_)
FirstSeen(xs) ==
    IF xs = <<>> THEN <<>>
    ELSE LET front == FirstSeen(SubSeq(xs, 1, Len(xs) - 1))
         IN IF xs[Len(xs)] \in Range(front) THEN front ELSE Append(front, xs[Len(xs)])

\* the number of times x occurs in xs
Occurrences(xs, x) == Cardinality({i \in 1..Len(xs) : xs[i] = x})

\* mutant: of the values tied for most frequent the one seen last
MostCommonLastSeen(xs) ==
    LET keys == FirstSeen(xs)
        k == CHOOSE i \in 1..Len(keys) :
                 /\ \A j \in 1..Len(keys) : Occurrences(xs, keys[j]) <= Occurrences(xs, keys[i])
                 /\ \A j \in (i + 1)..Len(keys) :
                       Occurrences(xs, keys[j]) < Occurrences(xs, keys[i])
    IN <<keys[k], Occurrences(xs, keys[k])>>

\* Counter(xs).most_common(1)[0]: max() over the items of the counter, which
\* returns the first of the items with the highest count
MostCommon(xs) ==
    LET keys == FirstSeen(xs)
        k == CHOOSE i \in 1..Len(keys) :
                 /\ \A j \in 1..Len(keys) : Occurrences(xs, keys[j]) <= Occurrences(xs, keys[i])
                 /\ \A j \in 1..(i - 1) :
                       Occurrences(xs, keys[j]) < Occurrences(xs, keys[i])
    IN <<keys[k], Occurrences(xs, keys[k])>>

\* ''.join(['DS', str(value)])
DsId(value) ==
    CASE value = 0 -> "DS0"
      [] value = 1 -> "DS1"
      [] value = 2 -> "DS2"

\* the body of the loop of find_ds_per_asset_and_event for one asset: the
\* description of its most frequent global damage state
AssetDsName(cons, asset_desc) ==
    IF "global" \notin DOMAIN cons THEN Raised("KeyError: global")
    ELSE IF "damage_state" \notin DOMAIN cons["global"] THEN Raised("KeyError: damage_state")
    ELSE IF cons["global"]["damage_state"] = <<>> THEN Raised("IndexError: most_common")
    ELSE LET b == MostCommon(cons["global"]["damage_state"])
             idx == FindConsIdx(asset_desc.damage_states, "id", DsId(b[1]))
         IN IF idx.status = "raised" THEN idx
            ELSE Returned(asset_desc.damage_states[idx.value].description)

\* the loop over the assets of the event, from position i
RECURSIVE DsLoop(_, _, _, _, _)
DsLoop(assets, i, event_results, asset_glob_ds_desc, ds_per_asset) ==
    IF i > Len(assets) THEN Returned(ds_per_asset)
    ELSE IF assets[i] \notin DOMAIN asset_glob_ds_desc
         THEN Raised("KeyError: asset")
         ELSE LET asset_ds_name == AssetDsName(event_results[assets[i]],
                                               asset_glob_ds_desc[assets[i]])
              IN IF asset_ds_name.status = "raised" THEN asset_ds_name
                 ELSE DsLoop(assets, i + 1, event_results, asset_glob_ds_desc,
                             DictPut(ds_per_asset, assets[i], asset_ds_name.value))

\* find_ds_per_asset_and_event, the plot and the files it writes left aside
FindDsPerAssetAndEvent(results, eid, asset_glob_ds_desc) ==
    IF Str(eid) \notin DOMAIN results THEN Raised("KeyError: eid")
    ELSE DsLoop(AssetKeys(results[Str(eid)]), 1, results[Str(eid)],
                asset_glob_ds_desc, EmptyDict)

(***************************************************************************)
(* Stage 1 alone: filter_events_by_imvalue on a catalog with samples at    *)
(* every site.                                                             *)
(***************************************************************************)
ImTypes == {"PGA", "pga", "SA"}

\* samples at the asset sites are below or above the threshold, site 3 has
\* samples above it
Stage1Gmfs ==
    {f \in [SiteIds \X EventIds -> {NoSample} \cup GmvValues] :
        \A e \in EventIds : f[<<3, e>>] # 1}

\* two assets, each of either taxonomy and at either asset site
Stage1Exposures ==
    {[t \in Taxonomies |->
         SelectSeq(<<Asset("a1", 1), Asset("a2", s2)>>,
                   LAMBDA a : (IF a.asset_name = "a1" THEN t1 ELSE t2) = t)] :
        t1 \in Taxonomies, t2 \in Taxonomies, s2 \in AssetSiteIds}

ConsFunction(imt) == [im_type |-> imt]

InitStage1 ==
    /\ \E f \in Stage1Gmfs :
          imfield_data =
              [gmf_data |-> GmfRows(f), imts |-> "PGA",
               events |-> EventRows([e \in EventIds |-> 1]),
               ruptures |-> RuptureRows([r \in RuptureIds |-> 5],
                                        [r \in RuptureIds |-> Hypo(3)])]
    /\ cons_for_hazard \in [Taxonomies -> {ConsFunction(t) : t \in ImTypes}]
    /\ cons_mtdata = [Nrealizations |-> NumRealizations]
    /\ exp_assets \in Stage1Exposures
    /\ call = NoCall
    /\ ret = NoRet

Methods == {1, 2}

Thresholds == {None, 0, 2, 3}

FilterEventsByImvalueCall ==
    /\ call = NoCall
    /\ \E events_filtering_method \in Methods, IM_threshold \in Thresholds :
          /\ events_filtering_method = 2 => IM_threshold # None
          /\ call' = [op |-> "filter_events_by_imvalue",
                      events_filtering_method |-> events_filtering_method,
                      IM_threshold |-> IM_threshold]
          /\ ret' = FilterEventsByImvalue(events_filtering_method, IM_threshold)
    /\ UNCHANGED <<imfield_data, cons_for_hazard, cons_mtdata, exp_assets>>

NextStage1 == FilterEventsByImvalueCall

SpecStage1 == InitStage1 /\ [][NextStage1]_vars

(***************************************************************************)
(* The whole pipeline: filter_events on catalogs whose ruptures differ in  *)
(* magnitude and distance.                                                 *)
(***************************************************************************)
\* samples at site 1 only
FilterGmfs ==
    {f \in [SiteIds \X EventIds -> {NoSample} \cup GmvValues] :
        \A e \in EventIds : f[<<2, e>>] = NoSample /\ f[<<3, e>>] = NoSample}

\* the rows of the ruptures that have no event repeat the first rupture's values
InitFilter ==
    /\ \E f \in FilterGmfs, rup_of \in EventRuptureMaps,
          mag_of \in [RuptureIds -> MagValues], lon_of \in [RuptureIds -> HypoLons] :
          /\ \A r \in RuptureIds \ {rup_of[e] : e \in EventIds} :
                mag_of[r] = mag_of[1] /\ lon_of[r] = lon_of[1]
          /\ imfield_data =
                [gmf_data |-> GmfRows(f), imts |-> "PGA",
                 events |-> EventRows(rup_of),
                 ruptures |-> RuptureRows(mag_of, [r \in RuptureIds |-> Hypo(lon_of[r])])]
    /\ cons_for_hazard = [t \in Taxonomies |-> ConsFunction(IF t = "T1" THEN "PGA" ELSE "pga")]
    /\ cons_mtdata = [Nrealizations |-> NumRealizations]
    /\ exp_assets = [t \in Taxonomies |->
                        IF t = "T1" THEN <<Asset("a1", 1)>> ELSE <<Asset("a2", 2)>>]
    /\ call = NoCall
    /\ ret = NoRet

MinMags == {None, 0, 5}

MaxMags == {None, 0, 4}

MinDists == {None, 0, 4}

MaxDists == {None, 0, 3}

FilterThresholds == {None, 2}

FilterEventsCall ==
    /\ call = NoCall
    /\ \E min_mag \in MinMags, max_mag \in MaxMags, IM_threshold \in FilterThresholds,
          min_dist \in MinDists, max_dist \in MaxDists, ref_coords \in {NoRef, RefPoint} :
          /\ call' = [op |-> "filter_events", min_mag |-> min_mag, max_mag |-> max_mag,
                      IM_threshold |-> IM_threshold, min_dist |-> min_dist,
                      max_dist |-> max_dist, ref_coords |-> ref_coords]
          /\ ret' = FilterEvents(min_mag, max_mag, IM_threshold, min_dist, max_dist, ref_coords)
    /\ UNCHANGED <<imfield_data, cons_for_hazard, cons_mtdata, exp_assets>>

NextFilter == FilterEventsCall

SpecFilter == InitFilter /\ [][NextFilter]_vars

(***************************************************************************)
(* The consequence model of the consequence specifications.                *)
(***************************************************************************)
\* the IM levels of every taxonomy; the value 2 is as close to the one as to the other
ImLevels == <<1, 3>>

ImValues == {1, 2, 3}

\* a realization-indexed array: realization j of (level, component, field); damage
\* states repeat among the realizations when `repeats`
ArrayOf(level_idx, comp, field, repeats) ==
    [j \in 1..NumRealizations |->
        <<level_idx, comp, field,
          IF repeats /\ field = "damage_state" THEN (j - 1) % 2 ELSE j - 1>>]

\* a component of a Tier I record with the given keys
ComponentOf(level_idx, comp, keys, repeats) ==
    [k \in {"component"} \cup keys |->
        IF k = "component" THEN comp
        ELSE IF k = "recovery" THEN "recovery summary"
        ELSE ArrayOf(level_idx, comp, k, repeats)]

GlobalOf(level_idx, repeats) ==
    [k \in {"cost", "damage_state", "recovery"} |-> ArrayOf(level_idx, "global", k, repeats)]

Shapes == {"tier1", "tier1_plain", "tier1_norlz", "tier2", "tier2_iml"}

\* the record of one IM level:
\*   tier1        components c1 and global, global with recovery realizations
\*   tier1_plain  components c1 and global, global without recovery
\*   tier1_norlz  global with the key recovery but without recovery_realizations
\*   tier2        the single key global
\*   tier2_iml    the keys im_level and global
ImlRecord(shape, level_idx, repeats) ==
    LET c1 == ComponentOf(level_idx, "c1", {"cost", "damage_state"}, repeats)
        tier1(gkeys) ==
            [im_level |-> ImLevels[level_idx],
             consequences |-> <<c1, ComponentOf(level_idx, "global", gkeys, repeats)>>]
    IN CASE shape = "tier1" ->
                tier1({"cost", "damage_state", "recovery", "recovery_realizations"})
         [] shape = "tier1_plain" -> tier1({"cost", "damage_state"})
         [] shape = "tier1_norlz" -> tier1({"cost", "damage_state", "recovery"})
         [] shape = "tier2" -> [global |-> GlobalOf(level_idx, repeats)]
         [] shape = "tier2_iml" ->
                [im_level |-> ImLevels[level_idx], global |-> GlobalOf(level_idx, repeats)]

DamageStateDescription ==
    <<[component |-> "c1", damage_states |-> <<>>],
      [component |-> "global", damage_states |-> <<>>]>>

ConsModel(imt, shape, repeats) ==
    [im_type |-> imt,
     iml_consequences |-> [l \in 1..Len(ImLevels) |-> ImlRecord(shape, l, repeats)],
     component_damage_state_description |-> DamageStateDescription]

\* the index lists of length NumRealizations: the permutations of range(N)
PermSeqs ==
    {p \in [1..NumRealizations -> 0..(NumRealizations - 1)] :
        \A i, j \in 1..NumRealizations : i # j => p[i] # p[j]}

EmptyImfield ==
    [gmf_data |-> <<>>, imts |-> "PGA",
     events |-> EventRows([e \in EventIds |-> 1]),
     ruptures |-> RuptureRows([r \in RuptureIds |-> 5], [r \in RuptureIds |-> Hypo(3)])]

(***************************************************************************)
(* get_consequences_by_event called for one asset.                         *)
(***************************************************************************)
InitByEvent ==
    /\ imfield_data = EmptyImfield
    /\ \E s1 \in {"tier1", "tier1_plain", "tier1_norlz"}, s2 \in {"tier2", "tier2_iml"},
          repeats \in BOOLEAN :
          cons_for_hazard =
              [t \in Taxonomies |-> ConsModel("PGA", IF t = "T1" THEN s1 ELSE s2, repeats)]
    /\ cons_mtdata = [Nrealizations |-> NumRealizations]
    /\ exp_assets = [t \in Taxonomies |-> <<>>]
    /\ call = NoCall
    /\ ret = NoRet

EventLists == {<<1>>, <<2, 1>>}

\* results of an earlier call: none, or an entry of asset a2 for event 1
PriorResults ==
    {EmptyDict, DictPut(EmptyDict, "1", DictPut(EmptyDict, "a2", [global |-> EmptyDict]))}

GetConsequencesByEventCall ==
    /\ call = NoCall
    /\ \E tax_key \in Taxonomies, events \in EventLists, asset_name \in {"a1", "a2"},
          rndnums \in PermSeqs, results \in PriorResults :
          \E im_values \in [1..Len(events) -> ImValues] :
             /\ call' = [op |-> "get_consequences_by_event", events |-> events,
                         im_values |-> im_values, asset_name |-> asset_name,
                         tax_key |-> tax_key, asset_im_levels |-> ImLevels,
                         rndnums |-> rndnums, results |-> results]
             /\ ret' = GetConsequencesByEvent(events, im_values, asset_name, ImLevels,
                           cons_for_hazard[tax_key].iml_consequences, rndnums, results)
    /\ UNCHANGED <<imfield_data, cons_for_hazard, cons_mtdata, exp_assets>>

NextByEvent == GetConsequencesByEventCall

SpecByEvent == InitByEvent /\ [][NextByEvent]_vars

(***************************************************************************)
(* get_consequences_by_event_all_assets called for one event.              *)
(***************************************************************************)
\* event 1 may lack samples at the asset sites; the later events have them
AllAssetsGmfs ==
    {f \in [SiteIds \X EventIds -> {NoSample} \cup ImValues] :
        /\ \A e \in EventIds : f[<<3, e>>] = NoSample
        /\ \A e \in EventIds \ {1} : f[<<1, e>>] = 3 /\ f[<<2, e>>] = 3}

AllAssetsExposures ==
    {[T1 |-> <<Asset("a1", 1), Asset("a2", 2)>>, T2 |-> <<Asset("a3", 1)>>],
     [T1 |-> <<Asset("a1", 1)>>, T2 |-> <<Asset("a2", 2), Asset("a3", 2)>>],
     [T1 |-> <<>>, T2 |-> <<Asset("a1", 2), Asset("a2", 1)>>]}

ImTypePairs == {<<"PGA", "PGA">>, <<"PGA", "pga">>, <<"SA", "PGA">>, <<"PGA", "SA">>}

InitAllAssets ==
    /\ \E f \in AllAssetsGmfs :
          imfield_data = [EmptyImfield EXCEPT !.gmf_data = GmfRows(f)]
    /\ \E s1 \in Shapes, s2 \in Shapes, imts \in ImTypePairs :
          cons_for_hazard =
              [t \in Taxonomies |->
                  IF t = "T1" THEN ConsModel(imts[1], s1, FALSE)
                  ELSE ConsModel(imts[2], s2, FALSE)]
    /\ cons_mtdata = [Nrealizations |-> NumRealizations]
    /\ exp_assets \in AllAssetsExposures
    /\ call = NoCall
    /\ ret = NoRet

GetConsequencesByEventAllAssetsCall ==
    /\ call = NoCall
    /\ \E event_id \in EventIds :
          /\ call' = [op |-> "get_consequences_by_event_all_assets", event_id |-> event_id]
          /\ ret' = GetConsequencesByEventAllAssets(event_id)
    /\ UNCHANGED <<imfield_data, cons_for_hazard, cons_mtdata, exp_assets>>

NextAllAssets == GetConsequencesByEventAllAssetsCall

SpecAllAssets == InitAllAssets /\ [][NextAllAssets]_vars

(***************************************************************************)
(* Both traversals of the taxonomies on the same inputs.                   *)
(***************************************************************************)
NextImType == FilterEventsByImvalueCall \/ GetConsequencesByEventAllAssetsCall

SpecImType == InitAllAssets /\ [][NextImType]_vars

(***************************************************************************)
(* exposure_by_taxonomy called on the assets of an exposure model.         *)
(***************************************************************************)
Sids ==
    {IntSid(2), ListSid(<<2>>), ListSid(<<3, 1>>), ListSid(<<1, 3>>), ListSid(<<3, 1, 2>>)}

ControlPoints == {2, 3}

Locations ==
    {[sid |-> s] : s \in Sids}
        \cup {[sid |-> s, hzrd_ctrl_pnt |-> h] : s \in Sids, h \in ControlPoints}

AssetTypes == {"point", "Point", "area", "linear"}

RawAsset(name, taxonomy, asset_type, location) ==
    [asset_name |-> name, taxonomy |-> taxonomy, asset_type |-> asset_type,
     location |-> location]

\* the second asset is a point asset of any taxonomy, T3 being a taxonomy the
\* consequence model does not have
SecondAssets ==
    {RawAsset("a2", t, "point", l) :
        t \in {"T1", "T2", "T3"},
        l \in {[sid |-> ListSid(<<1>>)], [sid |-> ListSid(<<3, 2>>)],
               [sid |-> ListSid(<<1>>), hzrd_ctrl_pnt |-> 3]}}

\* the hazard sites: 1 at (0,0), 2 at (4,0), 3 at (0,4)
HazardSitecol == [sids |-> <<1, 2, 3>>, lon |-> <<0, 4, 0>>, lat |-> <<0, 0, 4>>]

\* the sites of the exposure model: 1 at (4,1), 2 at (2,2), 3 at (3,3); in the
\* second table site id 2 is listed twice
SiteMtdatas ==
    {[site_id |-> <<1, 2, 3>>, lon |-> <<4, 2, 3>>, lat |-> <<1, 2, 3>>],
     [site_id |-> <<1, 2, 2>>, lon |-> <<4, 2, 3>>, lat |-> <<1, 2, 3>>]}

MaxAllowableDists == {None, 1, 4, 5}

InitExposure ==
    /\ imfield_data =
          [gmf_data |-> EmptyImfield.gmf_data, imts |-> EmptyImfield.imts,
           events |-> EmptyImfield.events, ruptures |-> EmptyImfield.ruptures,
           sitecol |-> HazardSitecol]
    /\ cons_for_hazard = [t \in Taxonomies |-> ConsFunction("PGA")]
    /\ cons_mtdata = [Nrealizations |-> NumRealizations]
    /\ \E asset_type \in AssetTypes, l \in Locations, a2 \in SecondAssets :
          exp_assets = <<RawAsset("a1", "T1", asset_type, l), a2>>
    /\ call = NoCall
    /\ ret = NoRet

ExposureByTaxonomyCall ==
    /\ call = NoCall
    /\ \E hazard2exppoints_consistency \in BOOLEAN, site_mtdata \in SiteMtdatas,
          max_allowable_dist \in MaxAllowableDists :
          LET r == ExposureByTaxonomy(exp_assets, hazard2exppoints_consistency,
                                      site_mtdata, max_allowable_dist)
          IN /\ call' = [op |-> "exposure_by_taxonomy", exp_assets |-> exp_assets,
                         hazard2exppoints_consistency |-> hazard2exppoints_consistency,
                         site_mtdata |-> site_mtdata,
                         max_allowable_dist |-> max_allowable_dist]
             /\ ret' = [status |-> r.status, error |-> r.error, value |-> r.value]
             /\ exp_assets' = r.exp_assets
    /\ UNCHANGED <<imfield_data, cons_for_hazard, cons_mtdata>>

NextExposure == ExposureByTaxonomyCall

SpecExposure == InitExposure /\ [][NextExposure]_vars

(***************************************************************************)
(* find_ds_per_asset_and_event called on the results of an event.          *)
(***************************************************************************)
DsValues == {0, 1, 2}

DamageStateArrays == [1..NumRealizations -> DsValues]

\* the descriptions of the damage states; the second table has none for DS2
DsTables ==
    {<<[id |-> "DS0", description |-> "none"], [id |-> "DS1", description |-> "moderate"],
       [id |-> "DS2", description |-> "collapse"]>>,
     <<[id |-> "DS0", description |-> "none"], [id |-> "DS1", description |-> "moderate"]>>}

\* the results of event 1: asset a1 alone, or a1 and a2
EventResults ==
    {DictPut(EmptyDict, "a1", [global |-> [damage_state |-> d1]]) :
        d1 \in DamageStateArrays}
    \cup {DictPut(DictPut(EmptyDict, "a1", [global |-> [damage_state |-> d1]]),
                  "a2", [global |-> [damage_state |-> d2]]) :
            d1 \in DamageStateArrays, d2 \in DamageStateArrays}

InitDs ==
    /\ imfield_data = EmptyImfield
    /\ cons_for_hazard = [t \in Taxonomies |-> ConsFunction("PGA")]
    /\ cons_mtdata = [Nrealizations |-> NumRealizations]
    /\ exp_assets = [t \in Taxonomies |-> <<>>]
    /\ call = NoCall
    /\ ret = NoRet

FindDsPerAssetAndEventCall ==
    /\ call = NoCall
    /\ \E event_results \in EventResults, eid \in EventIds, table \in DsTables :
          LET results == DictPut(EmptyDict, "1", event_results)
              asset_glob_ds_desc ==
                  [n \in DOMAIN event_results |->
                      [component |-> "global", damage_states |-> table]]
          IN /\ call' = [op |-> "find_ds_per_asset_and_event", results |-> results,
                         eid |-> eid, asset_glob_ds_desc |-> asset_glob_ds_desc]
             /\ ret' = FindDsPerAssetAndEvent(results, eid, asset_glob_ds_desc)
    /\ UNCHANGED <<imfield_data, cons_for_hazard, cons_mtdata, exp_assets>>

NextDs == FindDsPerAssetAndEventCall

SpecDs == InitDs /\ [][NextDs]_vars

(***************************************************************************)
(* filter_events applied to a catalog and then, with the same              *)
(* configuration, to the catalog restricted to the events it returned.     *)
(***************************************************************************)
\* the catalog restricted to the events of event_ids: their samples, their
\* event rows and the rows of their ruptures
RestrictCatalog(event_ids) ==
    LET events == SelectSeq(imfield_data.events, LAMBDA row : row.id \in event_ids)
    IN [gmf_data |-> SelectSeq(imfield_data.gmf_data, LAMBDA row : row.eid \in event_ids),
        imts |-> imfield_data.imts,
        events |-> events,
        ruptures |-> SelectSeq(imfield_data.ruptures,
                               LAMBDA row : row.id \in Range(Column(events, "rup_id")))]

\* the first application, on configurations in which every bound is positive
\* or absent
FilterEventsFirstCall ==
    /\ call = NoCall
    /\ \E min_mag \in MinMags \ {0}, max_mag \in MaxMags \ {0},
          IM_threshold \in FilterThresholds,
          min_dist \in MinDists \ {0}, max_dist \in MaxDists \ {0} :
          /\ call' = [op |-> "filter_events", min_mag |-> min_mag, max_mag |-> max_mag,
                      IM_threshold |-> IM_threshold, min_dist |-> min_dist,
                      max_dist |-> max_dist, ref_coords |-> RefPoint]
          /\ ret' = FilterEvents(min_mag, max_mag, IM_threshold, min_dist, max_dist, RefPoint)
    /\ UNCHANGED <<imfield_data, cons_for_hazard, cons_mtdata, exp_assets>>

\* between the applications the catalog is restricted to the returned events
RestrictCatalogStep ==
    /\ call.op = "filter_events"
    /\ ret.status = "returned"
    /\ imfield_data' = RestrictCatalog(Range(ret.value))
    /\ call' = [call EXCEPT !.op = "restricted"]
    /\ UNCHANGED <<cons_for_hazard, cons_mtdata, exp_assets, ret>>

\* the second application: filter_events runs on the restricted catalog with
\* the configuration of the first call
FilterEventsAgainCall ==
    /\ call.op = "restricted"
    /\ call' = [op |-> "filter_events_again", min_mag |-> call.min_mag,
                max_mag |-> call.max_mag, IM_threshold |-> call.IM_threshold,
                min_dist |-> call.min_dist, max_dist |-> call.max_dist,
                ref_coords |-> call.ref_coords, first |-> ret.value]
    /\ ret' = FilterEvents(call.min_mag, call.max_mag, call.IM_threshold,
                           call.min_dist, call.max_dist, call.ref_coords)
    /\ UNCHANGED <<imfield_data, cons_for_hazard, cons_mtdata, exp_assets>>

NextRefilter == FilterEventsFirstCall \/ RestrictCatalogStep \/ FilterEventsAgainCall

SpecRefilter == InitFilter /\ [][NextRefilter]_vars

(***************************************************************************)
(* filter_events called with magnitude arguments passed or left out, on    *)
(* catalogs with magnitudes below and above the default of min_mag.        *)
(***************************************************************************)
LowAndHighMags == {3, 5}

InitDefaults ==
    /\ \E f \in FilterGmfs, rup_of \in EventRuptureMaps,
          mag_of \in [RuptureIds -> LowAndHighMags] :
          /\ \A r \in RuptureIds \ {rup_of[e] : e \in EventIds} : mag_of[r] = mag_of[1]
          /\ imfield_data =
                [gmf_data |-> GmfRows(f), imts |-> "PGA",
                 events |-> EventRows(rup_of),
                 ruptures |-> RuptureRows(mag_of, [r \in RuptureIds |-> Hypo(3)])]
    /\ cons_for_hazard = [t \in Taxonomies |-> ConsFunction("PGA")]
    /\ cons_mtdata = [Nrealizations |-> NumRealizations]
    /\ exp_assets = [t \in Taxonomies |->
                        IF t = "T1" THEN <<Asset("a1", 1)>> ELSE <<Asset("a2", 2)>>]
    /\ call = NoCall
    /\ ret = NoRet

\* min_dist, max_dist and ref_coords are left out and have their defaults
FilterEventsKeywordsCall ==
    /\ call = NoCall
    /\ \E min_mag \in {Omitted, None, 5}, max_mag \in {Omitted, None, 4},
          IM_threshold \in FilterThresholds :
          /\ call' = [op |-> "filter_events", min_mag |-> min_mag, max_mag |-> max_mag,
                      IM_threshold |-> IM_threshold]
          /\ ret' = FilterEvents(OrDefault(min_mag, DefaultMinMag), OrDefault(max_mag, None),
                                 IM_threshold, None, None, NoRef)
    /\ UNCHANGED <<imfield_data, cons_for_hazard, cons_mtdata, exp_assets>>

NextDefaults == FilterEventsKeywordsCall

SpecDefaults == InitDefaults /\ [][NextDefaults]_vars

(***************************************************************************)
(* get_consequences_by_event_all_assets called twice on the same exposure  *)
(* and consequence model; the second call keeps the outcome of the first.  *)
(***************************************************************************)
GetConsequencesByEventAllAssetsAgainCall ==
    /\ call.op = "get_consequences_by_event_all_assets"
    /\ \E event_id \in EventIds :
          /\ call' = [op |-> "get_consequences_by_event_all_assets again",
                      event_id |-> event_id, first_event_id |-> call.event_id,
                      first_ret |-> ret]
          /\ ret' = GetConsequencesByEventAllAssets(event_id)
    /\ UNCHANGED <<imfield_data, cons_for_hazard, cons_mtdata, exp_assets>>

NextTwoCalls ==
    GetConsequencesByEventAllAssetsCall \/ GetConsequencesByEventAllAssetsAgainCall

SpecTwoCalls == InitAllAssets /\ [][NextTwoCalls]_vars

(***************************************************************************)
(* The results mapping: get_consequences_by_event called for one asset on  *)
(* results of earlier calls, and get_consequences_by_event_all_assets      *)
(* called for one event, on models every taxonomy of which can be          *)
(* processed by either.                                                    *)
(***************************************************************************)
InitMerge ==
    /\ \E f \in AllAssetsGmfs :
          /\ f[<<1, 1>>] # NoSample /\ f[<<2, 1>>] = f[<<1, 1>>]
          /\ imfield_data = [EmptyImfield EXCEPT !.gmf_data = GmfRows(f)]
    /\ \E s1 \in {"tier1", "tier1_plain"}, s2 \in {"tier1_plain", "tier2"} :
          cons_for_hazard =
              [t \in Taxonomies |-> ConsModel("PGA", IF t = "T1" THEN s1 ELSE s2, FALSE)]
    /\ cons_mtdata = [Nrealizations |-> NumRealizations]
    /\ exp_assets \in AllAssetsExposures
    /\ call = NoCall
    /\ ret = NoRet

\* results of earlier calls: none, an entry of asset a2 for event 1, or an entry of
\* asset a1 for event 2
MergePriorResults ==
    PriorResults
        \cup {DictPut(EmptyDict, "2", DictPut(EmptyDict, "a1", [global |-> EmptyDict]))}

GetConsequencesByEventOnResultsCall ==
    /\ call = NoCall
    /\ \E tax_key \in Taxonomies, events \in EventLists, asset_name \in {"a1", "a2"},
          rndnums \in PermSeqs, results \in MergePriorResults :
          \E im_values \in [1..Len(events) -> ImValues] :
             /\ call' = [op |-> "get_consequences_by_event", events |-> events,
                         im_values |-> im_values, asset_name |-> asset_name,
                         tax_key |-> tax_key, asset_im_levels |-> ImLevels,
                         rndnums |-> rndnums, results |-> results]
             /\ ret' = GetConsequencesByEvent(events, im_values, asset_name, ImLevels,
                           cons_for_hazard[tax_key].iml_consequences, rndnums, results)
    /\ UNCHANGED <<imfield_data, cons_for_hazard, cons_mtdata, exp_assets>>

NextMerge == GetConsequencesByEventOnResultsCall \/ GetConsequencesByEventAllAssetsCall

SpecMerge == InitMerge /\ [][NextMerge]_vars

(***************************************************************************)
(* What the claims speak of, stated on the inputs.                         *)
(***************************************************************************)
AllAssets == UNION {Range(exp_assets[t]) : t \in Taxonomies}

\* the intensity values sampled for event e at the resolved site of the asset
SamplesAt(asset, e) ==
    {row.gmv : row \in {r \in Range(imfield_data.gmf_data) :
                           r.sid = asset.location.hazard_sid /\ r.eid = e}}

\* presence: some asset of some taxonomy has a sample for e at its site
PresenceCandidates == {e \in EventIds : \E a \in AllAssets : SamplesAt(a, e) # {}}

\* threshold: some asset of some taxonomy has a sample >= thr for e at its site
ThresholdCandidates(thr) ==
    {e \in EventIds : \E a \in AllAssets : \E v \in SamplesAt(a, e) : v >= thr}

\* the stage-1 candidates of a filter_events call
Stage1Candidates(IM_threshold) ==
    IF Truthy(IM_threshold) THEN ThresholdCandidates(IM_threshold) ELSE PresenceCandidates

RuptureOf(e) ==
    LET ev == CHOOSE row \in Range(imfield_data.events) : row.id = e
    IN CHOOSE row \in Range(imfield_data.ruptures) : row.id = ev.rup_id

\* a value within bounds of which None means "not supplied"
WithinSupplied(v, lo, hi) == (lo # None => v >= lo) /\ (hi # None => v <= hi)

IsByImvalue == call.op = "filter_events_by_imvalue"

IsFilterEvents == call.op = "filter_events"

\* the events a filter_events call has to return: the candidates whose rupture
\* lies within the supplied magnitude and distance bounds
ExpectedEvents ==
    {e \in Stage1Candidates(call.IM_threshold) :
        /\ WithinSupplied(RuptureOf(e).mag, call.min_mag, call.max_mag)
        /\ WithinSupplied(GeoDistanceKm(RuptureOf(e).hypo, RefPoint),
                          call.min_dist, call.max_dist)}

NoZeroBound ==
    /\ IsFilterEvents
    /\ call.min_mag # 0 /\ call.max_mag # 0
    /\ call.min_dist # 0 /\ call.max_dist # 0

Count(xs, x) == Cardinality({i \in 1..Len(xs) : xs[i] = x})

(***************************************************************************)
(* C2: filter_events returns every candidate event whose rupture is within *)
(* the magnitude and distance bounds, each exactly once, also when several *)
(* candidates are realizations of one rupture.  Stated for calls in which  *)
(* no bound is 0 and violated there: of two candidates of one rupture the  *)
(* first is returned twice and the second not at all.                      *)
(***************************************************************************)
C2_ReturnsEverySurvivorOnce ==
    (NoZeroBound /\ ret.status = "returned") =>
        \A e \in EventIds : Count(ret.value, e) = (IF e \in ExpectedEvents THEN 1 ELSE 0)

C7_PresenceCandidates ==
    (IsByImvalue /\ call.events_filtering_method = 1) =>
        /\ ret.status = "returned" => ret.value = PresenceCandidates
        /\ ret = Raised("AssertionError: all events are filtered out") =>
               PresenceCandidates = {}

\* an event sampled only at sites of no asset is left out
C7_Witness ==
    /\ IsByImvalue /\ call.events_filtering_method = 1
    /\ ret.status = "returned"
    /\ \E e \in EventIds :
          /\ e \notin ret.value
          /\ \E row \in Range(imfield_data.gmf_data) : row.eid = e

(***************************************************************************)
(* C8: every event filter_events returns is a stage-1 candidate whose own  *)
(* rupture satisfies the supplied magnitude and distance bounds.  Violated *)
(* by a supplied bound of 0, which the stages treat as not supplied.       *)
(***************************************************************************)
C8_ReturnedEventsSatisfyBounds ==
    (IsFilterEvents /\ ret.status = "returned") => Range(ret.value) \subseteq ExpectedEvents

(***************************************************************************)
(* C9: a threshold supplied in presence mode is ignored: where the call    *)
(* without a threshold returns a candidate set, the call with a threshold  *)
(* returns the same set.  Violated: the call raises Warning.               *)
(***************************************************************************)
C9_ThresholdIgnoredInPresenceMode ==
    (/\ IsByImvalue /\ call.events_filtering_method = 1 /\ call.IM_threshold # None
     /\ FilterEventsByImvalue(1, None).status = "returned") =>
        ret = FilterEventsByImvalue(1, None)

IsByEvent == call.op = "get_consequences_by_event"

IsAllAssets == call.op = "get_consequences_by_event_all_assets"

\* the components of a consequence record
SourceComponents(rec) ==
    IF "consequences" \in DOMAIN rec
    THEN {c["component"] : c \in Range(rec["consequences"])}
    ELSE {"global"}

\* the fields of a component of a consequence record that hold realizations
SourceFields(rec, comp) ==
    IF "consequences" \in DOMAIN rec
    THEN DOMAIN (CHOOSE c \in Range(rec["consequences"]) : c["component"] = comp)
             \cap {"cost", "damage_state", "recovery"}
    ELSE DOMAIN rec["global"] \cap {"cost", "damage_state", "recovery"}

\* the realizations an emitted field is taken from
SourceArray(rec, comp, field) ==
    IF "consequences" \in DOMAIN rec
    THEN LET c == CHOOSE c \in Range(rec["consequences"]) : c["component"] = comp
         IN IF field = "recovery" THEN c["recovery_realizations"] ELSE c[field]
    ELSE rec["global"][field]

\* the records the call chooses among
CallRecords == cons_for_hazard[call.tax_key].iml_consequences

\* the entry the call emitted for its asset under event e
EmittedEntry(e) == ret.value[Str(e)][call.asset_name]

IndexLists == [1..NumRealizations -> 0..(NumRealizations - 1)]

(***************************************************************************)
(* C1: the index list of the asset at traversal position k (from 0) is the *)
(* shuffle of the identity list with seed k+1, whatever was shuffled for   *)
(* the assets before it.  Violated: the list is shuffled in place, so the  *)
(* second asset gets the shuffle of the first asset's list.                *)
(***************************************************************************)
C1_IndexListIsShuffledIdentity ==
    (IsAllAssets /\ ret.status = "returned") =>
        \A k \in 1..Len(ret.trace) :
            ret.trace[k].rndnums = Shuffle(k, RangeList(cons_mtdata.Nrealizations))

(***************************************************************************)
(* C4: all reindexed arrays of one emitted entry (cost, damage_state and   *)
(* recovery of every component) take position i from one and the same      *)
(* source realization.                                                     *)
(***************************************************************************)
C4_OnePermutationPerEntry ==
    (IsByEvent /\ ret.status = "returned") =>
        \A e \in Range(call.events) :
            \E l \in 1..Len(CallRecords), src \in IndexLists :
                \A comp \in DOMAIN EmittedEntry(e) :
                    \A field \in DOMAIN EmittedEntry(e)[comp] :
                        \A i \in 1..NumRealizations :
                            EmittedEntry(e)[comp][field][i] =
                                SourceArray(CallRecords[l], comp, field)[src[i] + 1]

\* an entry with cost, damage_state and recovery, rearranged by a list that moves
\* every realization
C4_Witness ==
    /\ IsByEvent /\ ret.status = "returned"
    /\ \A i \in 1..NumRealizations : call.rndnums[i] # i - 1
    /\ \E e \in Range(call.events) :
          /\ DOMAIN EmittedEntry(e)["global"] = {"cost", "damage_state", "recovery"}
          /\ EmittedEntry(e)["global"]["recovery"][1][4] = call.rndnums[1]
          /\ EmittedEntry(e)["global"]["cost"][1][4] = call.rndnums[1]

(***************************************************************************)
(* C5: every cost and damage_state array a of every component of the       *)
(* chosen record is emitted with length N and output[i] = a[P[i]], P being *)
(* the index list passed to get_consequences_by_event.                     *)
(***************************************************************************)
C5_OutputIsArrayAtP ==
    (IsByEvent /\ ret.status = "returned") =>
        \A e \in Range(call.events) :
            \E l \in 1..Len(CallRecords) :
                \A comp \in SourceComponents(CallRecords[l]) :
                    \A field \in SourceFields(CallRecords[l], comp) \ {"recovery"} :
                        /\ comp \in DOMAIN EmittedEntry(e)
                        /\ field \in DOMAIN EmittedEntry(e)[comp]
                        /\ Len(EmittedEntry(e)[comp][field]) = NumRealizations
                        /\ \A i \in 1..NumRealizations :
                              EmittedEntry(e)[comp][field][i] =
                                  SourceArray(CallRecords[l], comp, field)[call.rndnums[i] + 1]

\* P = [2, 0, 1] maps [A, B, C] to [C, A, B]
C5_Witness ==
    /\ IsByEvent /\ ret.status = "returned"
    /\ call.rndnums[1] = 2 /\ call.rndnums[2] = 0
    /\ \E e \in Range(call.events), l \in 1..Len(CallRecords) :
          LET a == SourceArray(CallRecords[l], "c1", "damage_state")
              out == EmittedEntry(e)["c1"]["damage_state"]
          IN out[1] = a[3] /\ out[2] = a[1] /\ a[3] # a[1]

IsExposure == call.op = "exposure_by_taxonomy"

\* the assets of the returned structure
ResolvedAssets == UNION {Range(ret.value[t]) : t \in Taxonomies}

(***************************************************************************)
(* C10: in direct mode every resolved asset that carries an explicit       *)
(* control site (hzrd_ctrl_pnt) is resolved to that control site, whatever *)
(* candidate site ids it lists.  Violated: a point asset that lists one    *)
(* site id is resolved to that id and its control site is not consulted.   *)
(***************************************************************************)
C10_ControlSiteHonoured ==
    (IsExposure /\ call.hazard2exppoints_consistency /\ ret.status = "returned") =>
        \A a \in ResolvedAssets :
            "hzrd_ctrl_pnt" \in DOMAIN a.location =>
                a.location.hazard_sid = a.location.hzrd_ctrl_pnt

\* the assets handed to exposure_by_taxonomy whose taxonomy the consequence model has
CalledAssets == {a \in Range(call.exp_assets) : a.taxonomy \in Taxonomies}

\* the resolved record of the asset named n
ResolvedAsset(n) == CHOOSE a \in ResolvedAssets : a.asset_name = n

IsDirect == IsExposure /\ call.hazard2exppoints_consistency

IsGeodesic == IsExposure /\ ~call.hazard2exppoints_consistency

(***************************************************************************)
(* C11: a linear asset that carries an explicit control site is resolved,  *)
(* and resolved to that control site.  Violated: find_asset_sid assigns no *)
(* site id for the type linear and the call fails.                         *)
(***************************************************************************)
C11_LinearAssetResolvesToControlSite ==
    IsDirect =>
        \A a \in CalledAssets :
            (a.asset_type = "linear" /\ "hzrd_ctrl_pnt" \in DOMAIN a.location) =>
                /\ ret.status = "returned"
                /\ ResolvedAsset(a.asset_name).location.hazard_sid = a.location.hzrd_ctrl_pnt

(***************************************************************************)
(* C12: exposure_by_taxonomy leaves the caller's exposure assets as they   *)
(* were; only the returned structure carries hazard_sid.  Violated: the    *)
(* location of every resolved asset is updated in place.                   *)
(***************************************************************************)
C12_InputAssetsUnchanged == IsExposure => exp_assets = call.exp_assets

\* the distance from the site of the asset to its nearest hazard site
NearestDistance(a) ==
    LET sid == FindAssetSid(a.location, a.asset_type).value.items[1]
        c == CHOOSE i \in 1..Len(call.site_mtdata.site_id) : call.site_mtdata.site_id[i] = sid
        d(k) == GeoDistanceKm([lon |-> imfield_data.sitecol.lon[k], lat |-> imfield_data.sitecol.lat[k]],
                              [lon |-> call.site_mtdata.lon[c], lat |-> call.site_mtdata.lat[c]])
    IN d(CHOOSE k \in 1..Len(imfield_data.sitecol.sids) :
             \A j \in 1..Len(imfield_data.sitecol.sids) : d(j) >= d(k))

\* a geodesic call in which every asset has a site reference with one row of
\* coordinates and a maximum distance is supplied
GeodesicWellFormed ==
    /\ IsGeodesic
    /\ call.max_allowable_dist # None
    /\ \A a \in CalledAssets :
          /\ FindAssetSid(a.location, a.asset_type).status = "returned"
          /\ Cardinality({i \in 1..Len(call.site_mtdata.site_id) :
                call.site_mtdata.site_id[i] =
                    FindAssetSid(a.location, a.asset_type).value.items[1]}) = 1

(***************************************************************************)
(* C13: in geodesic mode resolution fails exactly when the distance from   *)
(* an asset to its nearest hazard site exceeds the maximum distance; at a  *)
(* distance equal to the maximum the asset is resolved.  Violated: the     *)
(* code requires the distance to be strictly below the maximum.            *)
(***************************************************************************)
C13_FailsIffBeyondMaximum ==
    GeodesicWellFormed =>
        (ret.status = "raised" <=>
            \E a \in CalledAssets : NearestDistance(a) > call.max_allowable_dist)

\* im_type names that differ in letter case at most
SameImType(a, b) == \E c \in {{"PGA", "pga"}, {"SA", "sa"}} : a \in c /\ b \in c

\* the taxonomies whose im_type differs from the catalog's, letter case aside
MismatchingTaxonomies ==
    {t \in Taxonomies : ~SameImType(cons_for_hazard[t].im_type, imfield_data.imts)}

(***************************************************************************)
(* C14: when some taxonomy declares an im_type that differs from the       *)
(* catalog's im_type, letter case aside, filter_events_by_imvalue and      *)
(* get_consequences_by_event_all_assets fail and return nothing, wherever  *)
(* that taxonomy sits in the traversal; im_types that differ in letter     *)
(* case only never make them fail on the im_type.                          *)
(***************************************************************************)
C14_ImTypeMismatchIsFatal ==
    (IsByImvalue \/ IsAllAssets) =>
        /\ MismatchingTaxonomies # {} => ret.status = "raised" /\ ret.value = <<>>
        /\ MismatchingTaxonomies = {} => ret.error # "AssertionError: IM type"

\* the second taxonomy mismatches and the assets of the first were processed
C14_Witness ==
    /\ IsAllAssets
    /\ MismatchingTaxonomies = {"T2"}
    /\ exp_assets["T1"] # <<>>
    /\ ret.status = "raised" /\ ret.error = "AssertionError: IM type"

(***************************************************************************)
(* C15: when the resolved site of an asset of the traversal has no ground  *)
(* motion sample for the event, get_consequences_by_event_all_assets fails *)
(* and returns no result; a returned result has every asset, each computed *)
(* from a sample of the event at its own site.                             *)
(***************************************************************************)
C15_MissingSampleIsFatal ==
    IsAllAssets =>
        /\ (\E a \in AllAssets : SamplesAt(a, call.event_id) = {}) =>
               ret.status = "raised" /\ ret.value = <<>>
        /\ ret.status = "returned" =>
               /\ \A a \in AllAssets :
                     a.asset_name \in DOMAIN ret.value.results[Str(call.event_id)]
               /\ \A k \in 1..Len(ret.trace) :
                     \E a \in AllAssets :
                        /\ a.asset_name = ret.trace[k].asset_name
                        /\ ret.trace[k].im_value \in SamplesAt(a, call.event_id)

\* the first asset has a sample and was processed, a later one has none
C15_Witness ==
    /\ IsAllAssets
    /\ ret.status = "raised" /\ ret.error = "IndexError: no IM value"
    /\ exp_assets["T1"] # <<>>
    /\ SamplesAt(exp_assets["T1"][1], call.event_id) # {}
    /\ \E a \in AllAssets : SamplesAt(a, call.event_id) = {}

\* every rupture of the catalog has one event
OneEventPerRupture ==
    \A e1, e2 \in EventIds : RuptureOf(e1).id = RuptureOf(e2).id => e1 = e2

(***************************************************************************)
(* C16: the magnitude stage keeps a candidate event whose rupture          *)
(* magnitude lies within the supplied bounds, the bounds themselves        *)
(* included, and removes one strictly below min_magnitude or strictly      *)
(* above max_magnitude.  Stated for calls without distance bounds on       *)
(* catalogs with one event per rupture.  Violated: a supplied bound of 0   *)
(* is not applied.                                                         *)
(***************************************************************************)
C16_MagnitudeBoundsInclusive ==
    (/\ IsFilterEvents /\ ret.status = "returned"
     /\ call.min_dist = None /\ call.max_dist = None
     /\ OneEventPerRupture) =>
        \A e \in Stage1Candidates(call.IM_threshold) :
            e \in Range(ret.value) <=>
                WithinSupplied(RuptureOf(e).mag, call.min_mag, call.max_mag)

(***************************************************************************)
(* C17: filter_events fails and returns no event ids when min_distance or  *)
(* max_distance is supplied without a reference coordinate; when neither   *)
(* is supplied the distance stage is skipped and no reference coordinate   *)
(* is asked for.  Violated: a supplied distance bound of 0 without a       *)
(* reference coordinate is accepted.                                       *)
(***************************************************************************)
C17_DistanceBoundNeedsReference ==
    (IsFilterEvents /\ ~call.ref_coords.given) =>
        /\ (call.min_dist # None \/ call.max_dist # None) =>
               ret.status = "raised" /\ ret.value = <<>>
        /\ (call.min_dist = None /\ call.max_dist = None) =>
               ret.error # "AssertionError: reference point"

\* a point asset that lists several candidate site ids and no control site
IsMultiSitePoint(a) ==
    /\ a.asset_type \in {"point", "Point"}
    /\ a.location.sid.is_list /\ Len(a.location.sid.items) > 1
    /\ "hzrd_ctrl_pnt" \notin DOMAIN a.location

SmallestOf(xs) == CHOOSE x \in Range(xs) : \A y \in Range(xs) : x <= y

IsFindDs == call.op = "find_ds_per_asset_and_event"

\* the global damage states of asset n in the results of the call's event
GlobalDamageStates(n) == call.results[Str(call.eid)][n]["global"]["damage_state"]

\* the first position at which v occurs in xs
FirstPosition(xs, v) == CHOOSE i \in 1..Len(xs) : xs[i] = v /\ \A j \in 1..(i - 1) : xs[j] # v

\* the most frequent value of xs, the one occurring first among the tied
ModeFirstSeen(xs) ==
    CHOOSE v \in Range(xs) :
        \A w \in Range(xs) \ {v} :
            \/ Count(xs, w) < Count(xs, v)
            \/ Count(xs, w) = Count(xs, v) /\ FirstPosition(xs, v) < FirstPosition(xs, w)

\* the description the call's table gives for the damage state v of asset n
LabelOf(n, v) ==
    (CHOOSE row \in Range(call.asset_glob_ds_desc[n].damage_states) :
         row.id = DsId(v)).description

(***************************************************************************)
(* C19: find_ds_per_asset_and_event maps every asset of the event, and     *)
(* nothing else, to the label of the most frequent value of its global     *)
(* damage_state array; of several values tied for most frequent the one    *)
(* occurring first in the array is used.                                   *)
(***************************************************************************)
C19_MostFrequentDamageState ==
    (IsFindDs /\ ret.status = "returned") =>
        /\ DOMAIN ret.value = DOMAIN call.results[Str(call.eid)]
        /\ \A n \in DOMAIN ret.value :
              ret.value[n] = LabelOf(n, ModeFirstSeen(GlobalDamageStates(n)))

\* two assets, one of them with a tie between a value seen first and a
\* smaller value seen later
C19_Witness ==
    /\ IsFindDs /\ ret.status = "returned"
    /\ DOMAIN ret.value = {"a1", "a2"}
    /\ \E n \in DOMAIN ret.value :
          /\ GlobalDamageStates(n)[1] = 1
          /\ Count(GlobalDamageStates(n), 1) = Count(GlobalDamageStates(n), 0)
          /\ Count(GlobalDamageStates(n), 0) > 0
          /\ ret.value[n] = "moderate"

IsFilterEventsAgain == call.op = "filter_events_again"

C21_IndexListIsPermutation ==
    (IsAllAssets /\ ret.status = "returned") =>
        \A k \in 1..Len(ret.trace) :
            /\ Len(ret.trace[k].rndnums) = cons_mtdata.Nrealizations
            /\ \A v \in 0..(cons_mtdata.Nrealizations - 1) :
                  Count(ret.trace[k].rndnums, v) = 1

\* two assets were processed and the list of the second is the list of the
\* first shuffled again
C21_Witness ==
    /\ IsAllAssets /\ ret.status = "returned"
    /\ Len(ret.trace) >= 2
    /\ ret.trace[2].rndnums # ret.trace[1].rndnums
    /\ ret.trace[2].rndnums # RangeList(cons_mtdata.Nrealizations)

\* the candidates whose rupture has an event among the returned ones: the
\* candidates that came through the magnitude stage
SurvivingCandidates ==
    {e \in Stage1Candidates(call.IM_threshold) :
        \E e2 \in Range(ret.value) : RuptureOf(e2).id = RuptureOf(e).id}

(***************************************************************************)
(* C22 as stated: when neither min_magnitude nor max_magnitude is supplied *)
(* to filter_events, passed as None or left out of the call, every stage-1 *)
(* candidate survives the magnitude stage whatever its magnitude.          *)
(* Violated when min_mag is left out: its default 4.0 is applied.          *)
(***************************************************************************)
C22_NoMagnitudeBoundPassesAll ==
    (/\ IsFilterEvents /\ ret.status = "returned"
     /\ call.min_mag \in {None, Omitted} /\ call.max_mag \in {None, Omitted}) =>
        SurvivingCandidates = Stage1Candidates(call.IM_threshold)

(***************************************************************************)
(* C22 amended: when min_mag and max_mag are both None in the call of      *)
(* filter_events (max_mag passed as None or left out), every stage-1       *)
(* candidate survives the magnitude stage; when min_mag is left out, the   *)
(* candidates of magnitude 4.0 or more survive and the others are removed. *)
(***************************************************************************)
C22_NoneDisablesOmittedDefaults ==
    (/\ IsFilterEvents /\ ret.status = "returned"
     /\ call.max_mag \in {None, Omitted}) =>
        /\ call.min_mag = None =>
               SurvivingCandidates = Stage1Candidates(call.IM_threshold)
        /\ call.min_mag = Omitted =>
               SurvivingCandidates =
                   {e \in Stage1Candidates(call.IM_threshold) : RuptureOf(e).mag >= 4}

\* both bounds are None and a candidate of magnitude 3 is returned
C22_Witness ==
    /\ IsFilterEvents /\ ret.status = "returned"
    /\ call.min_mag = None /\ call.max_mag = None
    /\ \E e \in Range(ret.value) : RuptureOf(e).mag = 3

\* the distance from the site of asset a to the k-th hazard site
HazardDistance(a, k) ==
    LET sid == FindAssetSid(a.location, a.asset_type).value.items[1]
        c == CHOOSE i \in 1..Len(call.site_mtdata.site_id) : call.site_mtdata.site_id[i] = sid
    IN GeoDistanceKm([lon |-> imfield_data.sitecol.lon[k], lat |-> imfield_data.sitecol.lat[k]],
                     [lon |-> call.site_mtdata.lon[c], lat |-> call.site_mtdata.lat[c]])

\* the positions of the hazard site list
HazardPositions == 1..Len(imfield_data.sitecol.sids)

(***************************************************************************)
(* C23: in geodesic mode the hazard site of every resolved asset is at the *)
(* minimum distance from the asset's coordinate among all hazard sites,    *)
(* and every hazard site listed before it is strictly farther: on an exact *)
(* tie the first site of the hazard site list is chosen.                   *)
(***************************************************************************)
C23_FirstNearestHazardSite ==
    (IsGeodesic /\ ret.status = "returned") =>
        \A a \in ResolvedAssets :
            \E k \in HazardPositions :
                /\ imfield_data.sitecol.sids[k] = a.location.hazard_sid
                /\ \A j \in HazardPositions : HazardDistance(a, j) >= HazardDistance(a, k)
                /\ \A j \in 1..(k - 1) : HazardDistance(a, j) > HazardDistance(a, k)

\* a resolved asset with two hazard sites at the minimum distance, and one
\* whose nearest hazard site is not the first of the list
C23_Witness ==
    /\ IsGeodesic /\ ret.status = "returned"
    /\ \E a \in ResolvedAssets : \E k \in HazardPositions, j \in HazardPositions :
          /\ imfield_data.sitecol.sids[k] = a.location.hazard_sid
          /\ j > k
          /\ HazardDistance(a, j) = HazardDistance(a, k)
    /\ \E a \in ResolvedAssets :
          a.location.hazard_sid # imfield_data.sitecol.sids[1]

\* |level - value| of the level at index l for the event at position p of the call
LevelDistance(l, p) ==
    IF call.asset_im_levels[l] >= call.im_values[p]
    THEN call.asset_im_levels[l] - call.im_values[p]
    ELSE call.im_values[p] - call.asset_im_levels[l]

\* the emitted entry of event e is made of the realizations of the record at index l
EntryIsOfLevel(e, l) ==
    /\ DOMAIN EmittedEntry(e) = SourceComponents(CallRecords[l])
    /\ \A comp \in DOMAIN EmittedEntry(e) :
          /\ DOMAIN EmittedEntry(e)[comp] = SourceFields(CallRecords[l], comp)
          /\ \A field \in DOMAIN EmittedEntry(e)[comp] :
                \A i \in 1..NumRealizations :
                    EmittedEntry(e)[comp][field][i] =
                        SourceArray(CallRecords[l], comp, field)[call.rndnums[i] + 1]

(***************************************************************************)
(* C24: for every intensity value, get_consequences_by_event uses the      *)
(* record of a level index that minimizes |level - value|, and of the      *)
(* smallest such index when several levels are at the minimal distance.    *)
(***************************************************************************)
C24_ClosestLevelFirstOnTies ==
    (IsByEvent /\ ret.status = "returned") =>
        \A p \in 1..Len(call.events) :
            \E l \in 1..Len(call.asset_im_levels) :
                /\ \A j \in 1..Len(call.asset_im_levels) :
                      LevelDistance(j, p) >= LevelDistance(l, p)
                /\ \A j \in 1..(l - 1) : LevelDistance(j, p) > LevelDistance(l, p)
                /\ EntryIsOfLevel(call.events[p], l)

\* one event halfway between the two levels, emitted from the first level, and one
\* event at the second level, emitted from the second
C24_Witness ==
    /\ IsByEvent /\ ret.status = "returned"
    /\ Len(call.events) = 2
    /\ LevelDistance(1, 1) = LevelDistance(2, 1)
    /\ EntryIsOfLevel(call.events[1], 1)
    /\ LevelDistance(2, 2) < LevelDistance(1, 2)
    /\ EntryIsOfLevel(call.events[2], 2)

\* the errors of the Tier I branch of get_consequences_by_event
TierOneErrors == {"KeyError: consequences", "KeyError: recovery_realizations"}

\* every record of the taxonomy of the call has two or more keys
RecordsOfManyKeys ==
    \A l \in 1..Len(CallRecords) : Cardinality(DOMAIN CallRecords[l]) >= 2

\* the only key of every record of the taxonomy of the call is "global"
RecordsOfGlobalOnly == \A l \in 1..Len(CallRecords) : DOMAIN CallRecords[l] = {"global"}

(***************************************************************************)
(* C25: get_consequences_by_event handles a record with two or more keys   *)
(* as Tier I, looping over its component list: the emitted entry has the   *)
(* components of the list, and a failure is a failure of that loop; it     *)
(* handles a record whose only key is "global" as Tier II: the emitted     *)
(* entry has the single component "global" with cost, damage_state and     *)
(* recovery reindexed directly from under "global".                        *)
(***************************************************************************)
C25_DispatchByNumberOfKeys ==
    IsByEvent =>
        /\ RecordsOfManyKeys =>
              /\ ret.status = "raised" => ret.error \in TierOneErrors
              /\ ret.status = "returned" =>
                    \A e \in Range(call.events) :
                        \E l \in 1..Len(CallRecords) :
                            /\ "consequences" \in DOMAIN CallRecords[l]
                            /\ DOMAIN EmittedEntry(e) =
                                   {c["component"] : c \in Range(CallRecords[l]["consequences"])}
        /\ RecordsOfGlobalOnly =>
              /\ ret.status = "returned"
              /\ \A e \in Range(call.events) :
                    /\ DOMAIN EmittedEntry(e) = {"global"}
                    /\ \E l \in 1..Len(CallRecords) :
                          \A field \in {"cost", "damage_state", "recovery"} :
                              \A i \in 1..NumRealizations :
                                  EmittedEntry(e)["global"][field][i] =
                                      CallRecords[l]["global"][field][call.rndnums[i] + 1]

\* a record with the two keys im_level and consequences, emitted with the components
\* of its list
C25_Witness ==
    /\ IsByEvent /\ ret.status = "returned"
    /\ \A l \in 1..Len(CallRecords) : DOMAIN CallRecords[l] = {"im_level", "consequences"}
    /\ \E e \in Range(call.events) : DOMAIN EmittedEntry(e) = {"c1", "global"}

\* the "global" component of a Tier I record
GlobalComponent(rec) == CHOOSE c \in Range(rec["consequences"]) : c["component"] = "global"

\* every record of the taxonomy of the call is a Tier I record whose "global"
\* component carries a recovery field
TierOneWithRecovery ==
    \A l \in 1..Len(CallRecords) :
        /\ "consequences" \in DOMAIN CallRecords[l]
        /\ "recovery" \in DOMAIN GlobalComponent(CallRecords[l])

(***************************************************************************)
(* C26: for a Tier I record whose "global" component carries a recovery    *)
(* field, the emitted "global" component contains recovery with            *)
(* Nrealizations entries, entry i being the source recovery realization    *)
(* P[i], P being the index list also used for cost and damage_state.       *)
(* Violated: the code tests for the key recovery and reads the key         *)
(* recovery_realizations; a "global" component with recovery only fails.   *)
(***************************************************************************)
C26_TierOneRecoveryReindexed ==
    (IsByEvent /\ TierOneWithRecovery) =>
        /\ ret.status = "returned"
        /\ \A e \in Range(call.events) :
              \E l \in 1..Len(CallRecords) :
                  /\ "recovery" \in DOMAIN EmittedEntry(e)["global"]
                  /\ Len(EmittedEntry(e)["global"]["recovery"]) = cons_mtdata.Nrealizations
                  /\ \A field \in {"recovery", "cost", "damage_state"} :
                        \A i \in 1..cons_mtdata.Nrealizations :
                            EmittedEntry(e)["global"][field][i] =
                                SourceArray(CallRecords[l], "global", field)[call.rndnums[i] + 1]

\* the records of taxonomy t are Tier II records that carry their im_level
IsTierTwoTaxonomy(t) ==
    \A l \in 1..Len(cons_for_hazard[t].iml_consequences) :
        DOMAIN cons_for_hazard[t].iml_consequences[l] = {"im_level", "global"}

\* the records of taxonomy t are Tier I records with a component list, the recovery
\* of the "global" component coming with its realizations
IsTierOneTaxonomy(t) ==
    \A l \in 1..Len(cons_for_hazard[t].iml_consequences) :
        LET rec == cons_for_hazard[t].iml_consequences[l]
        IN /\ DOMAIN rec = {"im_level", "consequences"}
           /\ "recovery" \in DOMAIN GlobalComponent(rec) =>
                  "recovery_realizations" \in DOMAIN GlobalComponent(rec)

\* a call on a model of Tier I and Tier II taxonomies of the catalog's im_type, every
\* asset having a sample of the event, and some asset being of a Tier II taxonomy
TierTwoCall ==
    /\ IsAllAssets
    /\ MismatchingTaxonomies = {}
    /\ \A t \in Taxonomies : IsTierTwoTaxonomy(t) \/ IsTierOneTaxonomy(t)
    /\ \A a \in AllAssets : SamplesAt(a, call.event_id) # {}
    /\ \E t \in Taxonomies : IsTierTwoTaxonomy(t) /\ exp_assets[t] # <<>>

(***************************************************************************)
(* C27: for a taxonomy whose records are Tier II, each carrying the        *)
(* im_level that get_cons_imlevels reads, the call of                      *)
(* get_consequences_by_event_all_assets returns and emits for each asset   *)
(* of that taxonomy the single component "global" holding the fields       *)
(* reindexed by the asset's index list.  Violated: with im_level the       *)
(* record has two keys and is sent to the Tier I branch, which fails on    *)
(* the missing component list.                                             *)
(***************************************************************************)
C27_TierTwoTaxonomyEmitsGlobal ==
    TierTwoCall =>
        /\ ret.status = "returned"
        /\ \A k \in 1..Len(ret.trace) :
              IsTierTwoTaxonomy(ret.trace[k].tax_key) =>
                  LET entry == ret.value.results[Str(call.event_id)][ret.trace[k].asset_name]
                  IN /\ DOMAIN entry = {"global"}
                     /\ \E l \in 1..Len(ImLevels) :
                           \A field \in {"cost", "damage_state", "recovery"} :
                               \A i \in 1..cons_mtdata.Nrealizations :
                                   entry["global"][field][i] =
                                       cons_for_hazard[ret.trace[k].tax_key]
                                           .iml_consequences[l]["global"][field]
                                               [ret.trace[k].rndnums[i] + 1]

(***************************************************************************)
(* C28: a supplied bound of 0 is applied like any other bound value: with  *)
(* max_magnitude = 0 no returned event has a rupture magnitude above 0,    *)
(* and with max_distance = 0 no returned event has a rupture farther than  *)
(* 0 from the reference point.  Violated: the stages test the bounds by    *)
(* truth value and a bound of 0 counts as not supplied.                    *)
(***************************************************************************)
C28_ZeroBoundIsApplied ==
    (IsFilterEvents /\ ret.status = "returned") =>
        \A e \in Range(ret.value) :
            /\ call.max_mag = 0 => RuptureOf(e).mag <= 0
            /\ call.max_dist = 0 => GeoDistanceKm(RuptureOf(e).hypo, RefPoint) <= 0

IsAllAssetsAgain == call.op = "get_consequences_by_event_all_assets again"

\* the assets of the exposure in the order of the traversal
TraversalOrder == exp_assets[TaxKeys[1]] \o exp_assets[TaxKeys[2]]

(***************************************************************************)
(* C29: within one call of get_consequences_by_event_all_assets the seeds  *)
(* are 1, 2, 3, ... in the order of the traversal, continuing across the   *)
(* taxonomies, and a second call on the same exposure and consequence      *)
(* model, for the same or another event id, gives every asset the seed and *)
(* the index list the first call gave it.                                  *)
(***************************************************************************)
C29_SeedsByPositionAndRepeatable ==
    /\ ((IsAllAssets \/ IsAllAssetsAgain) /\ ret.status = "returned") =>
          /\ Len(ret.trace) = Len(TraversalOrder)
          /\ \A k \in 1..Len(ret.trace) :
                /\ ret.trace[k].asset_name = TraversalOrder[k].asset_name
                /\ ret.trace[k].rnd_seed = k
    /\ (/\ IsAllAssetsAgain /\ ret.status = "returned"
        /\ call.first_ret.status = "returned") =>
          \A k \in 1..Len(ret.trace) :
              /\ ret.trace[k].asset_name = call.first_ret.trace[k].asset_name
              /\ ret.trace[k].rnd_seed = call.first_ret.trace[k].rnd_seed
              /\ ret.trace[k].rndnums = call.first_ret.trace[k].rndnums

\* two returned calls for different events, the second and third asset being of
\* another taxonomy than the first
C29_Witness ==
    /\ IsAllAssetsAgain /\ ret.status = "returned" /\ call.first_ret.status = "returned"
    /\ call.event_id # call.first_event_id
    /\ Len(ret.trace) = 3
    /\ ret.trace[1].tax_key # ret.trace[2].tax_key
    /\ ret.trace[3].rnd_seed = 3
    /\ ret.value.results # call.first_ret.value.results

\* the keys of the results mapping under which the call puts an entry
CalledEventKeys == {Str(e) : e \in Range(call.events)}

\* the assets with an entry under key ev in the results handed to the call
PriorAssets(ev) == IF ev \in DOMAIN call.results THEN DOMAIN call.results[ev] ELSE {}

(***************************************************************************)
(* C30: get_consequences_by_event adds or replaces only the entry of the   *)
(* given asset under each given event id of the results mapping: the       *)
(* entries of other assets and of other events are the ones handed in; and *)
(* the results get_consequences_by_event_all_assets returns hold, under    *)
(* the event id, exactly one entry for each asset of every taxonomy.       *)
(***************************************************************************)
C30_OnlyTheAssetsEntryChanges ==
    /\ (IsByEvent /\ ret.status = "returned") =>
          /\ DOMAIN ret.value = DOMAIN call.results \cup CalledEventKeys
          /\ \A ev \in DOMAIN ret.value :
                /\ DOMAIN ret.value[ev] =
                       PriorAssets(ev)
                           \cup (IF ev \in CalledEventKeys THEN {call.asset_name} ELSE {})
                /\ \A n \in PriorAssets(ev) :
                      (n # call.asset_name \/ ev \notin CalledEventKeys) =>
                          ret.value[ev][n] = call.results[ev][n]
    /\ (IsAllAssets /\ ret.status = "returned") =>
          /\ DOMAIN ret.value.results = {Str(call.event_id)}
          /\ DOMAIN ret.value.results[Str(call.event_id)] =
                 {a.asset_name : a \in AllAssets}
          /\ Len(ret.trace) = Cardinality({a.asset_name : a \in AllAssets})

\* the entry of asset a1 is added under event 1 next to the earlier entry of asset
\* a2, and put under event 2 as its first entry
C30_Witness ==
    /\ IsByEvent /\ ret.status = "returned"
    /\ call.asset_name = "a1" /\ call.events = <<2, 1>>
    /\ DOMAIN call.results = {"1"}
    /\ DOMAIN ret.value["1"] = {"a1", "a2"}
    /\ ret.value["1"]["a2"] = call.results["1"]["a2"]
    /\ DOMAIN ret.value["2"] = {"a1"}

====
